---- MODULE Spec2Model ----
(***************************************************************************)
(* Trait-code extractors of altair_parser (trait_extractors.py) and the    *)
(* generated classes exercised by schemapi's tests.                        *)
(*                                                                         *)
(* A schema node is a record: the set of keywords present in its subtree,  *)
(* the values of those keywords, and the node's metadata.  A declaration   *)
(* is the abstract syntax of the source text construct_function_call       *)
(* renders: the callee, the positional arguments and the keyword           *)
(* arguments.  An exception is an output of kind "error".                  *)
(***************************************************************************)
EXTENDS Integers, Sequences, FiniteSets, TLC

VARIABLES doc, node, opts, last, chk, result, used

vars == <<doc, node, opts, last, chk, result, used>>

(***************************************************************************)
(* Bounds of the model.                                                    *)
(***************************************************************************)
\* longest "type" list drawn for a node
MaxTypes == 3
\* depth of the interpreter's call stack, counted in nested trait_code calls
RecursionLimit == 6

(***************************************************************************)
(* Values.                                                                 *)
(***************************************************************************)
EmptyMap == <<>>

\* The value of schema.type / typecode: None, a string or a list of strings.
NoneType == [tag |-> "none", s |-> "", l |-> <<>>]
StrType(s) == [tag |-> "str", s |-> s, l |-> <<>>]
ListType(l) == [tag |-> "list", s |-> "", l |-> l]

NoMeta == [title |-> "", description |-> ""]

\* A node with no keyword at all.
EmptyNode ==
  [keys |-> {}, type |-> NoneType, enum |-> <<>>, val |-> EmptyMap,
   ref |-> [ext |-> FALSE, path |-> ""],
   items |-> <<>>, itemsIsList |-> FALSE,
   anyOf |-> <<>>, oneOf |-> <<>>, allOf |-> <<>>, not |-> <<>>,
   props |-> <<>>, meta |-> NoMeta]

\* Outputs: a rendered call, or a raised exception.
Call(fn, args, kw) == [kind |-> "call", fn |-> fn, args |-> args, kw |-> kw]
Raise(exc) == [kind |-> "error", fn |-> exc, args |-> <<>>, kw |-> EmptyMap]
\* An argument that is a list of expressions (Variable of a list).
ListArg(xs) == [kind |-> "list", fn |-> "", args |-> xs, kw |-> EmptyMap]
\* An argument that is a bare name (Variable of a class name).
NameArg(n) == [kind |-> "name", fn |-> n, args |-> <<>>, kw |-> EmptyMap]
\* An argument that is a literal value (the enum list).
ValueArg(v) == [kind |-> "value", fn |-> "", args |-> v, kw |-> EmptyMap]
NoResult == [kind |-> "none", fn |-> "", args |-> <<>>, kw |-> EmptyMap]

IsError(o) == o.kind = "error"

\* What a call returns: its output, and the document as the call leaves it.
Ret(o, d) == [out |-> o, doc |-> d]

\* d1 updated with d2 (dict.update): d2's entries win.
Update(d1, d2) == d2 @@ d1

Without(d, ks) == [k \in DOMAIN d \ ks |-> d[k]]

(***************************************************************************)
(* The schema node (JSONSchema wrapper): typed accessors and the reference *)
(* resolver.                                                               *)
(***************************************************************************)
\* schema.type: the "type" keyword verbatim, else inferred from the
\* structural keywords, else undefined (None).
SchemaType(n) ==
  IF "type" \in n.keys THEN n.type
  ELSE IF "enum" \in n.keys THEN StrType("enum")
  ELSE IF "properties" \in n.keys \/ "additionalProperties" \in n.keys
       THEN StrType("object")
  ELSE IF "items" \in n.keys THEN StrType("array")
  ELSE NoneType

\* schema.is_object: the node becomes a class of its own.
is_object(n) == SchemaType(n) = StrType("object")

\* schema.classname of the node a reference path names: its last segment.
classname(path) == path

\* schema.get_reference(ref): the node at the path, or the resolver's error.
get_reference(d, ref) ==
  IF ref.ext THEN Raise("UnsupportedReferenceError")
  ELSE IF ref.path \notin DOMAIN d THEN Raise("UnresolvedReferenceError")
  ELSE NoResult

\* The options the node's trait_code property hands to the extractor it
\* picks: the node's metadata as documentation.
PropertyOptions(meta) ==
  IF meta.description # "" THEN [help |-> meta.description] ELSE EmptyMap

\* TraitCodeExtractor.__init__: typecode or schema.type.
Falsy(tc) ==
  \/ tc.tag = "none"
  \/ tc.tag = "str" /\ tc.s = ""
  \/ tc.tag = "list" /\ tc.l = <<>>

Typecode(n, typecode) == IF Falsy(typecode) THEN SchemaType(n) ELSE typecode

(***************************************************************************)
(* SimpleTraitCode                                                         *)
(***************************************************************************)
simple_types == <<"boolean", "null", "number", "integer", "string">>

SimpleTypeNames == {simple_types[i] : i \in DOMAIN simple_types}

classes ==
  [boolean |-> "jst.JSONBoolean", null |-> "jst.JSONNull",
   number |-> "jst.JSONNumber", integer |-> "jst.JSONInteger",
   string |-> "jst.JSONString"]

NumericKeys ==
  {"minimum", "exclusiveMinimum", "maximum", "exclusiveMaximum", "multipleOf"}

\* validation_keys.get(typecode, [])
validation_keys(t) == IF t \in {"number", "integer"} THEN NumericKeys ELSE {}

\* typecode in simple_types: false for None and for a list.
SimpleTraitCode_check(tc) == tc.tag = "str" /\ tc.s \in SimpleTypeNames

SimpleTraitCode_trait_code(n, tc, kwargs) ==
  IF tc.tag = "list" THEN Raise("TypeError")
  ELSE IF ~(tc.tag = "str" /\ tc.s \in DOMAIN classes) THEN Raise("KeyError")
  ELSE LET keys == validation_keys(tc.s) \cap n.keys
           forwarded == [k \in keys |-> n.val[k]]
       IN Call(classes[tc.s], <<>>, Update(kwargs, forwarded))

(***************************************************************************)
(* CompoundTraitCode                                                       *)
(***************************************************************************)
\* all(typ in simple_types for typ in typecode) and isinstance(typecode, list).
\* The generator runs first: None is not iterable; a string iterates over its
\* characters, none of which is a type name, and the empty string fails the
\* isinstance test.
CompoundTraitCode_check(tc) ==
  IF tc.tag = "none" THEN "TypeError"
  ELSE IF tc.tag = "str" THEN "False"
  ELSE IF \A i \in DOMAIN tc.l : tc.l[i] \in SimpleTypeNames THEN "True"
  ELSE "False"

\* [typ for typ in typecode if typ != 'null']
RECURSIVE NonNull(_)
NonNull(l) ==
  IF l = <<>> THEN <<>>
  ELSE IF Head(l) = "null" THEN NonNull(Tail(l))
  ELSE <<Head(l)>> \o NonNull(Tail(l))

\* The branches of the union, in the order of the list; the first failing
\* branch raises. SimpleTraitCode(schema, typ) replaces a falsy typ by
\* schema.type.
RECURSIVE UnionBranches(_, _, _)
UnionBranches(n, typecode, item_kwargs) ==
  IF typecode = <<>> THEN ListArg(<<>>)
  ELSE LET h == SimpleTraitCode_trait_code(n, Typecode(n, StrType(Head(typecode))),
                                          item_kwargs)
           t == UnionBranches(n, Tail(typecode), item_kwargs)
       IN IF IsError(h) THEN h
          ELSE IF IsError(t) THEN t
          ELSE ListArg(<<h>> \o t.args)

\* CompoundTraitCode.trait_code handing every option to each branch.
CompoundTraitCode_trait_code_flags_on_branches(n, tc, kwargs0) ==
  IF tc.tag = "none" THEN Raise("TypeError")
  ELSE IF tc.tag = "str"
    THEN IF tc.s = "" THEN Call("jst.JSONUnion", <<ListArg(<<>>)>>, kwargs0)
         ELSE Raise("KeyError")
  ELSE
  LET kwargs == IF \E i \in DOMAIN tc.l : tc.l[i] = "null"
                THEN Update(kwargs0, [allow_none |-> TRUE])
                ELSE kwargs0
      typecode == NonNull(tc.l)
  IN IF Len(typecode) = 1
     THEN SimpleTraitCode_trait_code(n, Typecode(n, StrType(typecode[1])), kwargs)
     ELSE LET arg == UnionBranches(n, typecode, kwargs)
          IN IF IsError(arg) THEN arg
             ELSE Call("jst.JSONUnion", <<arg>>, kwargs)

\* 'null' in typecode raises on None. On a string it is a substring test and
\* the comprehension iterates over the characters: the empty string leaves
\* an empty union, and any other string a first character that is no key of
\* classes.
CompoundTraitCode_trait_code(n, tc, kwargs0) ==
  IF tc.tag = "none" THEN Raise("TypeError")
  ELSE IF tc.tag = "str"
    THEN IF tc.s = "" THEN Call("jst.JSONUnion", <<ListArg(<<>>)>>, kwargs0)
         ELSE Raise("KeyError")
  ELSE
  LET kwargs == IF \E i \in DOMAIN tc.l : tc.l[i] = "null"
                THEN Update(kwargs0, [allow_none |-> TRUE])
                ELSE kwargs0
      typecode == NonNull(tc.l)
  IN IF Len(typecode) = 1
     THEN SimpleTraitCode_trait_code(n, Typecode(n, StrType(typecode[1])), kwargs)
     ELSE LET item_kwargs == Without(kwargs, {"allow_none", "allow_undefined"})
              arg == UnionBranches(n, typecode, item_kwargs)
          IN IF IsError(arg) THEN arg
             ELSE Call("jst.JSONUnion", <<arg>>, kwargs)

(***************************************************************************)
(* The chain (the node's trait_code property) and the extractors that use  *)
(* it on other nodes.                                                      *)
(***************************************************************************)
RECURSIVE trait_code(_, _, _)

\* other.trait_code, read by an extractor: one more level of the call stack.
nested_trait_code(d, n, fuel) == trait_code(d, n, fuel - 1)

\* [make_child(sub).trait_code for sub in subs]: in order, the first error
\* propagates.
RECURSIVE children_code(_, _, _)
children_code(d, subs, fuel) ==
  IF subs = <<>> THEN Ret(ListArg(<<>>), d)
  ELSE LET h == nested_trait_code(d, Head(subs), fuel)
       IN IF IsError(h.out) THEN Ret(h.out, h.doc)
          ELSE LET t == children_code(h.doc, Tail(subs), fuel)
               IN IF IsError(t.out) THEN t
                  ELSE Ret(ListArg(<<h.out>> \o t.out.args), t.doc)

\* RefTraitCode.check: '$ref' in schema
RefTraitCode_check(n) == "$ref" \in n.keys

\* ref = ref.copy(); ref.metadata = metadata: the document afterwards.
\* JSONSchema.copy and the metadata attribute are not part of this module's
\* source; nodes are taken to be never mutated in place and a copy to be a
\* fresh node, as the specification of the schema node has it.
RebindMetadata(d, path, meta) == d

\* RefTraitCode.trait_code leaving the target's own metadata on the copy.
RefTraitCode_trait_code_target_metadata(d, n, kwargs, fuel) ==
  LET got == get_reference(d, n.ref)
  IN IF "$ref" \notin n.keys THEN Ret(Raise("KeyError"), d)
     ELSE IF IsError(got) THEN Ret(got, d)
     ELSE LET ref == d[n.ref.path]
          IN IF is_object(ref)
             THEN Ret(Call("jst.JSONInstance",
                           <<NameArg(classname(n.ref.path))>>, kwargs), d)
             ELSE nested_trait_code(d, ref, fuel)

RefTraitCode_trait_code(d, n, kwargs, fuel) ==
  LET got == get_reference(d, n.ref)
  IN IF "$ref" \notin n.keys THEN Ret(Raise("KeyError"), d)
     ELSE IF IsError(got) THEN Ret(got, d)
     ELSE LET ref == d[n.ref.path]
          IN IF is_object(ref)
             THEN Ret(Call("jst.JSONInstance",
                           <<NameArg(classname(n.ref.path))>>, kwargs), d)
             ELSE LET copy == [ref EXCEPT !.meta = n.meta]
                      d2 == RebindMetadata(d, n.ref.path, n.meta)
                  IN nested_trait_code(d2, copy, fuel)

\* EnumTraitCode. schema[key] of a key the node does not hold raises
\* KeyError, here and in the extractors below.
EnumTraitCode_check(n) == "enum" \in n.keys

EnumTraitCode_trait_code(n, kwargs) ==
  IF "enum" \notin n.keys THEN Raise("KeyError")
  ELSE Call("jst.JSONEnum", <<ValueArg(n.enum)>>, kwargs)

\* ArrayTraitCode.check: schema.type == 'array'
ArrayTraitCode_check(n) == SchemaType(n) = StrType("array")

\* ArrayKeywords without the uniqueness flag.
ArrayKeywords_no_unique(n) ==
  LET a == IF "minItems" \in n.keys THEN [minlen |-> n.val["minItems"]]
           ELSE EmptyMap
      b == IF "maxItems" \in n.keys THEN [maxlen |-> n.val["maxItems"]]
           ELSE EmptyMap
  IN b @@ a

\* The length and uniqueness keywords present on the node, under the names
\* the declaration uses.
ArrayKeywords(n) ==
  LET a == IF "minItems" \in n.keys THEN [minlen |-> n.val["minItems"]]
           ELSE EmptyMap
      b == IF "maxItems" \in n.keys THEN [maxlen |-> n.val["maxItems"]]
           ELSE EmptyMap
      c == IF "uniqueItems" \in n.keys
           THEN [uniqueItems |-> n.val["uniqueItems"]] ELSE EmptyMap
  IN c @@ b @@ a

\* ArrayTraitCode.trait_code taking the first schema of a list of items.
ArrayTraitCode_trait_code_first_item(d, n, kwargs0, fuel) ==
  IF "items" \notin n.keys THEN Ret(Raise("KeyError"), d)
  ELSE LET kwargs == Update(kwargs0, ArrayKeywords(n))
           itemtype == nested_trait_code(d, n.items[1], fuel)
       IN IF IsError(itemtype.out) THEN Ret(itemtype.out, itemtype.doc)
          ELSE Ret(Call("jst.JSONArray", <<itemtype.out>>, kwargs), itemtype.doc)

ArrayTraitCode_trait_code(d, n, kwargs0, fuel) ==
  IF "items" \notin n.keys THEN Ret(Raise("KeyError"), d)
  ELSE LET kwargs == Update(kwargs0, ArrayKeywords(n))
       IN IF n.itemsIsList THEN Ret(Raise("NotImplementedError"), d)
          ELSE LET itemtype == nested_trait_code(d, n.items[1], fuel)
               IN IF IsError(itemtype.out) THEN Ret(itemtype.out, itemtype.doc)
                  ELSE Ret(Call("jst.JSONArray", <<itemtype.out>>, kwargs),
                           itemtype.doc)

\* AnyOfTraitCode, OneOfTraitCode, AllOfTraitCode
AnyOfTraitCode_check(n) == "anyOf" \in n.keys

OneOfTraitCode_check(n) == "oneOf" \in n.keys

AllOfTraitCode_check(n) == "allOf" \in n.keys

Composition(d, fn, subs, kwargs, fuel) ==
  LET children == children_code(d, subs, fuel)
  IN IF IsError(children.out) THEN children
     ELSE Ret(Call(fn, <<children.out>>, kwargs), children.doc)

AnyOfTraitCode_trait_code(d, n, kwargs, fuel) ==
  IF "anyOf" \notin n.keys THEN Ret(Raise("KeyError"), d)
  ELSE Composition(d, "jst.JSONAnyOf", n.anyOf, kwargs, fuel)

OneOfTraitCode_trait_code(d, n, kwargs, fuel) ==
  IF "oneOf" \notin n.keys THEN Ret(Raise("KeyError"), d)
  ELSE Composition(d, "jst.JSONOneOf", n.oneOf, kwargs, fuel)

AllOfTraitCode_trait_code(d, n, kwargs, fuel) ==
  IF "allOf" \notin n.keys THEN Ret(Raise("KeyError"), d)
  ELSE Composition(d, "jst.JSONAllOf", n.allOf, kwargs, fuel)

\* NotTraitCode
NotTraitCode_check(n) == "not" \in n.keys

NotTraitCode_trait_code(d, n, kwargs, fuel) ==
  LET not_this == nested_trait_code(d, n.not[1], fuel)
  IN IF "not" \notin n.keys THEN Ret(Raise("KeyError"), d)
     ELSE IF IsError(not_this.out) THEN Ret(not_this.out, not_this.doc)
     ELSE Ret(Call("jst.JSONNot", <<not_this.out>>, kwargs), not_this.doc)

\* ObjectTraitCode
ObjectTraitCode_check(tc) == tc = StrType("object")

ObjectTraitCode_trait_code(n, kwargs) == Raise("NotImplementedError")

\* The fixed priority order of the chain.
Order ==
  <<"Ref", "Enum", "Simple", "Compound", "Array",
    "AnyOf", "OneOf", "AllOf", "Not", "Object">>

\* check() of the extractor built on the node with no typecode of its own:
\* "True", "False" or the exception it raises.
Bool(b) == IF b THEN "True" ELSE "False"

Check(x, n) ==
  CASE x = "Ref" -> Bool(RefTraitCode_check(n))
    [] x = "Enum" -> Bool(EnumTraitCode_check(n))
    [] x = "Simple" -> Bool(SimpleTraitCode_check(Typecode(n, NoneType)))
    [] x = "Compound" -> CompoundTraitCode_check(Typecode(n, NoneType))
    [] x = "Array" -> Bool(ArrayTraitCode_check(n))
    [] x = "AnyOf" -> Bool(AnyOfTraitCode_check(n))
    [] x = "OneOf" -> Bool(OneOfTraitCode_check(n))
    [] x = "AllOf" -> Bool(AllOfTraitCode_check(n))
    [] x = "Not" -> Bool(NotTraitCode_check(n))
    [] x = "Object" -> Bool(ObjectTraitCode_check(Typecode(n, NoneType)))

\* trait_code(**kwargs) of the extractor built on the node.
RECURSIVE Extract(_, _, _, _, _)
Extract(x, d, n, kwargs, fuel) ==
  CASE x = "Ref" -> RefTraitCode_trait_code(d, n, kwargs, fuel)
    [] x = "Enum" -> Ret(EnumTraitCode_trait_code(n, kwargs), d)
    [] x = "Simple" ->
         Ret(SimpleTraitCode_trait_code(n, Typecode(n, NoneType), kwargs), d)
    [] x = "Compound" ->
         Ret(CompoundTraitCode_trait_code(n, Typecode(n, NoneType), kwargs), d)
    [] x = "Array" -> ArrayTraitCode_trait_code(d, n, kwargs, fuel)
    [] x = "AnyOf" -> AnyOfTraitCode_trait_code(d, n, kwargs, fuel)
    [] x = "OneOf" -> OneOfTraitCode_trait_code(d, n, kwargs, fuel)
    [] x = "AllOf" -> AllOfTraitCode_trait_code(d, n, kwargs, fuel)
    [] x = "Not" -> NotTraitCode_trait_code(d, n, kwargs, fuel)
    [] x = "Object" -> Ret(ObjectTraitCode_trait_code(n, kwargs), d)

\* The loop of the chain from position i: the extractor whose trait_code is
\* called, "TypeError" when a check raises first, "none" when none matches.
RECURSIVE FirstMatch(_, _)
FirstMatch(n, i) ==
  IF i > Len(Order) THEN "none"
  ELSE LET c == Check(Order[i], n)
       IN IF c = "True" THEN Order[i]
          ELSE IF c = "False" THEN FirstMatch(n, i + 1)
          ELSE c

trait_code(d, n, fuel) ==
  IF fuel <= 0 THEN Ret(Raise("RecursionError"), d)
  ELSE LET x == FirstMatch(n, 1)
       IN IF x = "none" THEN Ret(Raise("NoMatchingExtractorError"), d)
          ELSE IF x = "TypeError" THEN Ret(Raise("TypeError"), d)
          ELSE Extract(x, d, n, PropertyOptions(n.meta), fuel)

(***************************************************************************)
(* The schema documents and nodes the extractors are run on.               *)
(***************************************************************************)
WithType(n, t) == [n EXCEPT !.keys = @ \cup {"type"}, !.type = t]

WithRef(n, ext, path) ==
  [n EXCEPT !.keys = @ \cup {"$ref"}, !.ref = [ext |-> ext, path |-> path]]

WithEnum(n, e) == [n EXCEPT !.keys = @ \cup {"enum"}, !.enum = e]

WithVal(n, k, v) ==
  [n EXCEPT !.keys = @ \cup {k}, !.val = (k :> v) @@ @]

WithItems(n, subs, isList) ==
  [n EXCEPT !.keys = @ \cup {"items"}, !.items = subs, !.itemsIsList = isList]

WithAnyOf(n, subs) == [n EXCEPT !.keys = @ \cup {"anyOf"}, !.anyOf = subs]

WithOneOf(n, subs) == [n EXCEPT !.keys = @ \cup {"oneOf"}, !.oneOf = subs]

WithAllOf(n, subs) == [n EXCEPT !.keys = @ \cup {"allOf"}, !.allOf = subs]

WithNot(n, sub) == [n EXCEPT !.keys = @ \cup {"not"}, !.not = <<sub>>]

WithProps(n, ps) == [n EXCEPT !.keys = @ \cup {"properties"}, !.props = ps]

WithMeta(n, t, desc) == [n EXCEPT !.meta = [title |-> t, description |-> desc]]

Ref(path) == WithRef(EmptyNode, FALSE, path)

Typed(s) == WithType(EmptyNode, StrType(s))

\* The schema of schemapi's tests. Person has two properties and neither a
\* type nor metadata.
PersonSchema ==
  WithProps(EmptyNode,
            <<[name |-> "name", schema |-> Typed("string")],
              [name |-> "age", schema |-> Typed("integer")]>>)

\* The root of that schema has, besides the definitions, the one key
\* "additionalPropertiesproperties" (two adjacent string literals): no type
\* and no properties. The value under the key is read by nothing.
FamilySchema == [EmptyNode EXCEPT !.keys = {"additionalPropertiesproperties"}]

\* What a definition that is no class may be: an alias of another
\* definition, a scalar, a union of scalars, an array of references.
ShapesOfA ==
  {Ref("A"), Ref("B"), Ref("Person"),
   WithMeta(Typed("string"), "Name", "of the target"),
   WithItems(Typed("array"), <<Ref("B")>>, FALSE)}

ShapesOfB ==
  {Ref("A"), WithMeta(Typed("string"), "Name", "of the target"),
   WithType(EmptyNode, ListType(<<"number", "null">>))}

DefNames == {"A", "B", "Person", "Family"}

MakeDoc(a, b) ==
  [k \in DefNames |->
     CASE k = "A" -> a
       [] k = "B" -> b
       [] k = "Person" -> PersonSchema
       [] k = "Family" -> FamilySchema]

Docs == {MakeDoc(a, b) : a \in ShapesOfA, b \in ShapesOfB}

DefaultDoc == MakeDoc(Ref("B"), WithMeta(Typed("string"), "Name", "of the target"))

Metas == {NoMeta, [title |-> "Site", description |-> "of the site"]}

\* Every list of at most n elements of S.
RECURSIVE Lists(_, _)
Lists(S, n) ==
  IF n = 0 THEN {<<>>}
  ELSE Lists(S, n - 1) \cup
       {<<x>> \o l : x \in S, l \in {m \in Lists(S, n - 1) : Len(m) = n - 1}}

ListedNames == {"null", "string", "number", "object"}

TypeVals ==
  {StrType(s) : s \in SimpleTypeNames \cup {"object", "array"}}
    \cup {ListType(l) : l \in Lists(ListedNames, MaxTypes)}

\* Nodes with a type and numeric keywords only.
ScalarNodes ==
  LET typed == {EmptyNode} \cup {WithType(EmptyNode, t) : t \in TypeVals}
      ranged == typed \cup {WithVal(WithVal(n, "minimum", 0), "multipleOf", 2) : n \in typed}
  IN {[n EXCEPT !.meta = m] : n \in ranged, m \in Metas}

\* Nodes the chain runs on as the element of an array or a branch of a
\* composition.
Children ==
  {Typed("string"), WithVal(Typed("number"), "maximum", 9),
   WithType(EmptyNode, ListType(<<"string", "null">>)),
   Ref("A"), Ref("Person"), Typed("object"),
   WithMeta(WithEnum(EmptyNode, <<1, 2>>), "", "one of"),
   WithAnyOf(EmptyNode, <<Typed("string")>>)}

RefNodes ==
  LET targets == {WithRef(EmptyNode, FALSE, t) : t \in DefNames \cup {"Missing"}}
                   \cup {WithRef(EmptyNode, TRUE, "Person")}
      extra == targets \cup {WithType(n, StrType("object")) : n \in targets}
                 \cup {WithEnum(n, <<1, 2>>) : n \in targets}
  IN {[n EXCEPT !.meta = m] : n \in extra, m \in Metas}

EnumNodes ==
  {WithEnum(n, e) : n \in {EmptyNode, Typed("string"), Typed("object")},
                    e \in {<<>>, <<1, 2>>}}

ArrayNodes ==
  LET bases == {Typed("array"), EmptyNode}
      withItems == {Typed("array")}
                     \cup {WithItems(Typed("array"), <<c>>, FALSE) : c \in Children}
                     \cup {WithItems(EmptyNode, <<c>>, FALSE) : c \in {Typed("string"), Ref("A")}}
                     \cup {WithItems(b, <<Typed("string"), Typed("number")>>, TRUE) : b \in bases}
                     \cup {WithRef(WithItems(Typed("array"), <<Typed("string")>>, FALSE), FALSE, "A")}
      lo == withItems \cup {WithVal(n, "minItems", 1) : n \in withItems}
      hi == lo \cup {WithVal(n, "maxItems", 3) : n \in lo}
  IN hi \cup {WithVal(n, "uniqueItems", TRUE) : n \in hi}

Branches ==
  {<<>>, <<Typed("string")>>, <<Typed("string"), Ref("A")>>,
   <<Ref("Person"), Typed("object")>>, <<WithNot(EmptyNode, Typed("null"))>>}

CompositionNodes ==
  LET bases == {EmptyNode, Typed("object"),
                WithType(EmptyNode, ListType(<<"string", "object">>))}
  IN {WithAnyOf(b, s) : b \in bases, s \in Branches}
       \cup {WithOneOf(b, s) : b \in bases, s \in Branches}
       \cup {WithAllOf(b, s) : b \in bases, s \in Branches}
       \cup {WithNot(b, c) : b \in bases,
                              c \in {Typed("string"), Ref("A"), Ref("Person"), Typed("object")}}
       \cup {WithAnyOf(WithOneOf(WithAllOf(WithNot(b, Typed("null")),
                                           <<Ref("B")>>),
                                 <<Typed("integer")>>),
                       <<Typed("boolean")>>) : b \in bases}

\* Nodes whose trait code needs no definition of the document.
ClosedNodes == ScalarNodes \cup EnumNodes

\* Nodes whose trait code may resolve a reference.
OpenNodes == RefNodes \cup ArrayNodes \cup CompositionNodes

OptionSets ==
  {EmptyMap, [allow_none |-> FALSE], [allow_undefined |-> TRUE],
   [allow_none |-> TRUE, allow_undefined |-> FALSE]}

(***************************************************************************)
(* Running the extractors.                                                 *)
(***************************************************************************)
Init ==
  /\ \/ doc = DefaultDoc /\ node \in ClosedNodes
     \/ doc \in Docs /\ node \in OpenNodes
  /\ opts \in OptionSets
  /\ last = "none"
  /\ chk = "none"
  /\ result = NoResult
  /\ used = "none"

\* check() of extractor x on the node as it was given and, when it returns
\* true, trait_code(**opts).
Run(x) ==
  LET c == Check(x, node)
      r == IF c = "True" THEN Extract(x, doc, node, opts, RecursionLimit)
           ELSE Ret(NoResult, doc)
  IN /\ last = "none"
     /\ last' = x
     /\ chk' = c
     /\ result' = r.out
     /\ doc' = r.doc
     /\ used' = "none"
     /\ UNCHANGED <<node, opts>>

RunRef == Run("Ref")

RunEnum == Run("Enum")

RunSimple == Run("Simple")

RunCompound == Run("Compound")

RunArray == Run("Array")

RunAnyOf == Run("AnyOf")

RunOneOf == Run("OneOf")

RunAllOf == Run("AllOf")

RunNot == Run("Not")

RunObject == Run("Object")

\* The node's trait_code property: the whole chain.  Generation may be run
\* again on the document an earlier run left.
RunChain ==
  LET r == trait_code(doc, node, RecursionLimit)
  IN /\ last' = "chain"
     /\ chk' = "none"
     /\ result' = r.out
     /\ doc' = r.doc
     /\ used' = FirstMatch(node, 1)
     /\ UNCHANGED <<node, opts>>

Next ==
  \/ RunRef
  \/ RunEnum
  \/ RunSimple
  \/ RunCompound
  \/ RunArray
  \/ RunAnyOf
  \/ RunOneOf
  \/ RunAllOf
  \/ RunNot
  \/ RunObject
  \/ RunChain

Spec == Init /\ [][Next]_vars

(***************************************************************************)
(* Properties of the extractors.                                           *)
(***************************************************************************)
Extractors == {Order[i] : i \in DOMAIN Order}

\* The first extractor of the priority order whose check() returns true.
FirstTrue(n) ==
  LET hits == {i \in DOMAIN Order : Check(Order[i], n) = "True"}
  IN IF hits = {} THEN "none"
     ELSE Order[CHOOSE i \in hits : \A j \in hits : i <= j]

\* C1: the chain uses exactly one extractor on every node, the first of the
\* priority order whose check() returns true, and the declaration is the one
\* that extractor produces; a node with "$ref" is handled by the Reference
\* extractor whatever else it holds.
C1_FirstMatchWins ==
  (last = "chain" /\ FirstTrue(node) # "none") =>
    /\ used = FirstTrue(node)
    /\ (RefTraitCode_check(node) => used = "Ref")
    /\ (used \in Extractors =>
          result = Extract(used, doc, node, PropertyOptions(node.meta),
                           RecursionLimit).out)

\* The extent of C1: on the nodes whose type is defined the first match wins.
FirstMatchWinsWhenTyped ==
  (last = "chain" /\ (SchemaType(node) # NoneType \/ RefTraitCode_check(node)
                       \/ EnumTraitCode_check(node))) =>
    /\ used = FirstTrue(node)
    /\ (RefTraitCode_check(node) => used = "Ref")

\* The node resolves its reference to a definition of the document.
Resolves(n) == RefTraitCode_check(n) /\ ~IsError(get_reference(doc, n.ref))

\* C2: a reference to an object-class node is declared as an instance of the
\* target's class, by name; a reference to any other node is the trait code
\* of the target computed with the metadata of the referencing node.
C2_ReferenceDeclaration ==
  (last = "Ref" /\ chk = "True" /\ Resolves(node)) =>
    LET target == doc[node.ref.path]
        alias == [target EXCEPT !.meta = node.meta]
    IN IF is_object(target)
       THEN result = Call("jst.JSONInstance", <<NameArg(node.ref.path)>>, opts)
       ELSE /\ result = trait_code(doc, alias, RecursionLimit - 1).out
            /\ (FirstTrue(target) = "Simple" =>
                  result = SimpleTraitCode_trait_code(target, SchemaType(target),
                                                      PropertyOptions(node.meta)))

C2_Witness ==
  /\ last = "Ref" /\ chk = "True" /\ Resolves(node)
  /\ ~is_object(doc[node.ref.path])
  /\ doc[node.ref.path].meta.description = "of the target"
  /\ result.kind = "call"
  /\ "help" \in DOMAIN result.kw
  /\ result.kw["help"] = "of the site"

\* The number of successive "$ref" nodes, up to k, on the way from n through
\* targets that are no object class.
RECURSIVE RefHops(_, _, _)
RefHops(d, n, k) ==
  IF k = 0 \/ ~RefTraitCode_check(n) \/ IsError(get_reference(d, n.ref)) THEN 0
  ELSE IF is_object(d[n.ref.path]) THEN 0
  ELSE 1 + RefHops(d, d[n.ref.path], k - 1)

\* The node starts a chain of "$ref" nodes that comes back to itself.
InRefCycle(d, n) == RefHops(d, n, Cardinality(DefNames) + 1) > Cardinality(DefNames)

\* C3: generation on a cycle of "$ref" nodes that reaches no object class
\* ends with CyclicReferenceError.
C3_CycleReported ==
  (last = "chain" /\ InRefCycle(doc, node)) =>
    result = Raise("CyclicReferenceError")

\* A reference to an object class does not recurse.
ObjectReferenceEnds ==
  (last = "chain" /\ Resolves(node) /\ is_object(doc[node.ref.path])) =>
    result.kind = "call"

\* The call stack overflows only on a cycle of references.
RECURSIVE RefsIn(_)
RefsIn(n) ==
  LET subs == n.items \o n.anyOf \o n.oneOf \o n.allOf \o n.not
      own == IF RefTraitCode_check(n) THEN {n.ref.path} ELSE {}
  IN own \cup UNION {RefsIn(subs[i]) : i \in DOMAIN subs}

OverflowOnlyOnCycle ==
  result = Raise("RecursionError") =>
    \E p \in (RefsIn(node) \cap DefNames) \cup {"A", "B"} :
      p \in DOMAIN doc /\ (InRefCycle(doc, doc[p])
                             \/ \E q \in RefsIn(doc[p]) \cap DefNames :
                                  p \in RefsIn(doc[q]))

IsNotNull(t) == t # "null"

\* C4: the union of simple types.  "null" sets allow_none and leaves the
\* list; one remaining type gives the scalar declaration with every option;
\* otherwise jst.JSONUnion lists one scalar declaration per remaining type,
\* in order, and allow_none and allow_undefined are on the union only.
C4_CompoundDeclaration ==
  (last = "Compound" /\ chk = "True") =>
    LET types == SchemaType(node).l
        rest == SelectSeq(types, IsNotNull)
        kw == IF \E i \in DOMAIN types : types[i] = "null"
              THEN [allow_none |-> TRUE] @@ opts ELSE opts
        flags == {"allow_none", "allow_undefined"}
    IN IF Len(rest) = 1
       THEN /\ result.fn = classes[rest[1]]
            /\ result.args = <<>>
            /\ \A k \in DOMAIN kw : k \in DOMAIN result.kw /\ result.kw[k] = kw[k]
            /\ result = SimpleTraitCode_trait_code(node, StrType(rest[1]), kw)
       ELSE /\ result.kind = "call"
            /\ result.fn = "jst.JSONUnion"
            /\ result.kw = kw
            /\ Len(result.args) = 1
            /\ result.args[1].kind = "list"
            /\ Len(result.args[1].args) = Len(rest)
            /\ \A i \in DOMAIN rest :
                 LET branch == result.args[1].args[i]
                 IN /\ branch.fn = classes[rest[i]]
                    /\ DOMAIN branch.kw \cap flags = {}
                    /\ branch = SimpleTraitCode_trait_code(node, StrType(rest[i]),
                                                           Without(opts, flags))

C4_Witness ==
  /\ last = "Compound" /\ chk = "True"
  /\ SchemaType(node).l = <<"string", "null", "number">>
  /\ "minimum" \in node.keys
  /\ opts = [allow_undefined |-> TRUE]
  /\ result.fn = "jst.JSONUnion"
  /\ Len(result.args[1].args) = 2

\* C5: tuple typing and the anonymous object raise NotImplementedError
\* whatever else the node holds and whatever options are passed; nothing
\* else comes back.
C5_UnsupportedRaises ==
  /\ (last = "Array" /\ chk = "True" /\ "items" \in node.keys /\ node.itemsIsList) =>
       result = Raise("NotImplementedError")
  /\ (last = "Object" /\ chk = "True") => result = Raise("NotImplementedError")

C5_Witness ==
  /\ last = "Array" /\ chk = "True" /\ node.itemsIsList
  /\ {"minItems", "uniqueItems"} \subseteq node.keys
  /\ opts # EmptyMap
  /\ result = Raise("NotImplementedError")

\* C6: an array with one element schema is declared as jst.JSONArray of the
\* chain's trait code of the child at "items", with minlen, maxlen and
\* uniqueItems exactly for the keywords the node holds.
C6_ArrayDeclaration ==
  (last = "Array" /\ chk = "True" /\ "items" \in node.keys /\ ~node.itemsIsList) =>
    LET child == trait_code(doc, node.items[1], RecursionLimit - 1).out
        names == [minlen |-> "minItems", maxlen |-> "maxItems",
                  uniqueItems |-> "uniqueItems"]
    IN IF IsError(child) THEN result = child
       ELSE /\ result.kind = "call"
            /\ result.fn = "jst.JSONArray"
            /\ result.args = <<child>>
            /\ \A k \in DOMAIN names :
                 /\ k \in DOMAIN result.kw <=> names[k] \in node.keys
                 /\ k \in DOMAIN result.kw => result.kw[k] = node.val[names[k]]
            /\ DOMAIN result.kw = DOMAIN opts \cup
                 {k \in DOMAIN names : names[k] \in node.keys}
            /\ \A k \in DOMAIN opts : result.kw[k] = opts[k]

C6_Witness ==
  /\ last = "Array" /\ chk = "True"
  /\ node.keys \cap {"minItems", "maxItems", "uniqueItems"} = {"minItems", "uniqueItems"}
  /\ result.kind = "call"
  /\ result.args[1].fn = "jst.JSONInstance"
  /\ DOMAIN result.kw = {"minlen", "uniqueItems", "allow_undefined"}

\* C9: CompoundTraitCode.check() answers for every node: true exactly for a
\* list of simple type names, false otherwise, and it never raises.
C9_CompoundCheckTotal ==
  last = "Compound" =>
    LET t == SchemaType(node)
    IN chk = Bool(t.tag = "list" /\ \A i \in DOMAIN t.l : t.l[i] \in SimpleTypeNames)

\* The extent of C9: check() answers on the nodes whose type is defined.
CompoundCheckWhenTyped ==
  (last = "Compound" /\ SchemaType(node) # NoneType) =>
    LET t == SchemaType(node)
    IN chk = Bool(t.tag = "list" /\ \A i \in DOMAIN t.l : t.l[i] \in SimpleTypeNames)

\* C10: every option passed to trait_code is a keyword argument of the
\* outermost call of the declaration returned.
C10_OptionsKept ==
  (last \in Extractors /\ result.kind = "call") =>
    \A k \in DOMAIN opts : k \in DOMAIN result.kw

\* The extent of C10: the options are kept everywhere but on a reference to
\* a node that is no object class.
OptionsKeptButAlias ==
  (last \in Extractors /\ result.kind = "call"
     /\ ~(last = "Ref" /\ ~is_object(doc[node.ref.path]))) =>
    \A k \in DOMAIN opts : k \in DOMAIN result.kw

====
